---- MODULE Spec2Model ----
(***************************************************************************)
(* TUSRecord: the answer sheet of a two-category exam (tus_types.py) and   *)
(* the keyboard loop that fills it (tus_record.py).                        *)
(*                                                                         *)
(* Python lists are 0-based, TLA+ sequences 1-based: the answer at Python  *)
(* index i of a Subject is answers[i + 1] here.  Every index that appears  *)
(* in an operator's parameters or results is the Python (0-based) index.   *)
(* A dict is the sequence of its values in insertion order; the key of a   *)
(* value is its name field (QuizCategory keys every Subject by its name).  *)
(***************************************************************************)
EXTENDS Integers, Sequences, FiniteSets, TLC

\* ------------------------------------------------------------------------
\* Bounds of the model (not program constants)
\* ------------------------------------------------------------------------

\* SpecView: a view is built over every dict of at most MaxViewLen + 1
\* subjects whose lengths (0 included) sum to at most MaxViewLen.
MaxViewLen == 2

\* SpecConstruct: Quiz(...) is given blueprint lists of at most MaxBlueprints
\* subjects.
MaxBlueprints == 2

\* Quiz specifications: the questions of a category at absolute index below
\* FreeQuestions take any answer; the others take ScriptedAnswer(index).
FreeQuestions == 1

\* ------------------------------------------------------------------------
\* tus_types.py: constants, Answer, Subject
\* ------------------------------------------------------------------------

NUM_QUESTIONS_PER_CATEGORY == 100

CORRECT == "D"
WRONG == "Y"
EMPTY == "B"
MISSING == " "

Answer == {CORRECT, WRONG, EMPTY, MISSING}

\* Subject(name, question_count): [Answer.MISSING] * question_count
\* (a non-positive count gives the empty list).
Subject(name, question_count) ==
    [name |-> name, answers |-> [i \in 1..question_count |-> MISSING]]

\* len(subject)
SubjectLen(subject) == Len(subject.answers)

\* Subject.__deepcopy__: a new Subject whose fields are deep copies.  Values
\* carry no identity here, so the copy is the value itself; what the copy
\* buys (storage of its own) is that each category state below is a value
\* of its own and the blueprints are definitions nothing assigns to.
SubjectDeepcopy(subject) == [name |-> subject.name, answers |-> subject.answers]

RECURSIVE ListCount(_, _)
\* list.count(value)
ListCount(list, value) ==
    IF list = << >> THEN 0
    ELSE (IF Head(list) = value THEN 1 ELSE 0) + ListCount(Tail(list), value)

\* Subject.num_correct
SubjectNumCorrect(subject) == ListCount(subject.answers, CORRECT)

\* num_wrong counting the EMPTY answers
SubjectNumWrong_CountsEmpty(subject) == ListCount(subject.answers, EMPTY)

\* Subject.num_wrong
SubjectNumWrong(subject) == ListCount(subject.answers, WRONG)

\* Subject.num_empty
SubjectNumEmpty(subject) == ListCount(subject.answers, EMPTY)

\* Subject.num_net, in quarters: num_correct - num_wrong / 4 is the float
\* SubjectNumNet / 4, which floats hold exactly
SubjectNumNet(subject) == 4 * SubjectNumCorrect(subject) - SubjectNumWrong(subject)

\* Subject.to_dict: answer.value is the member's string, which is what an
\* Answer is here
SubjectToDict(subject) ==
    [name |-> subject.name,
     answers |-> [i \in 1..Len(subject.answers) |-> subject.answers[i]]]

\* the blueprint table with the first two lengths exchanged
theoretical_blueprints_Exchanged ==
    << Subject("Anatomi", 15), Subject("Fizyoloji", 13), Subject("Biyokimya", 18),
       Subject("Mikrobiyoloji", 18), Subject("Patoloji", 18), Subject("Farmakoloji", 18) >>

\* "Kadin Dogum" stands for the source's "Kadın Doğum" (ASCII only here).
theoretical_blueprints ==
    << Subject("Anatomi", 13), Subject("Fizyoloji", 15), Subject("Biyokimya", 18),
       Subject("Mikrobiyoloji", 18), Subject("Patoloji", 18), Subject("Farmakoloji", 18) >>

clinical_blueprints ==
    << Subject("Dahiliye", 25), Subject("Dahili KS", 10), Subject("Pediatri", 25),
       Subject("Genel Cerrahi", 21), Subject("Cerrahi KS", 9), Subject("Kadin Dogum", 10) >>

\* ------------------------------------------------------------------------
\* SubjectArrayMutableConcatenatedView
\*
\* The view and the dict it reads are kept together in one record
\*   [subjects_dict, array_view]
\* because the view holds references into the dict: a write through the
\* view is a write to the dict's Subject.  A segment names its Subject by
\* the Subject's position in the dict.
\* ------------------------------------------------------------------------

RECURSIVE SegmentInfo(_, _, _)
\* the loop of __init__: segments of data[k..], starting at absolute_index
SegmentInfo(data, k, absolute_index) ==
    IF k > Len(data) THEN << >>
    ELSE LET start == absolute_index
             end == absolute_index + SubjectLen(data[k])
         IN  << [key |-> data[k].name, start |-> start, end |-> end, subject |-> k] >>
             \o SegmentInfo(data, k + 1, end)

\* SubjectArrayMutableConcatenatedView(data)
ViewInit(data) ==
    LET segs == SegmentInfo(data, 1, 0)
    IN  [segment_info |-> segs,
         total_length |-> IF segs = << >> THEN 0 ELSE segs[Len(segs)].end,
         index_to_update |-> 0]

\* a dict together with a fresh view over it
Viewed(data) == [subjects_dict |-> data, array_view |-> ViewInit(data)]

\* len(view)
ViewLen(obj) == obj.array_view.total_length

\* view.current_index
CurrentIndex(obj) == obj.array_view.index_to_update

RECURSIVE ScanSegments(_, _, _)
\* the for loop of _get_internal_coords from segment s on: the first segment
\* with start <= absolute_index < end, or 0 when the loop falls through
ScanSegments(segs, s, absolute_index) ==
    IF s > Len(segs) THEN 0
    ELSE IF segs[s].start <= absolute_index /\ absolute_index < segs[s].end THEN s
    ELSE ScanSegments(segs, s + 1, absolute_index)

\* _get_internal_coords returning the absolute index as the internal one
GetInternalCoords_NoOffset(obj, absolute_index) ==
    IF ~(0 <= absolute_index /\ absolute_index < obj.array_view.total_length)
    THEN [err |-> "IndexError"]
    ELSE LET s == ScanSegments(obj.array_view.segment_info, 1, absolute_index)
         IN  IF s = 0 THEN [err |-> "RuntimeError"]
             ELSE LET seg == obj.array_view.segment_info[s]
                  IN  [err |-> "none", key |-> seg.key,
                       internal_index |-> absolute_index,
                       subject |-> seg.subject]

\* _get_internal_coords: [err, key, internal_index, subject]
GetInternalCoords(obj, absolute_index) ==
    IF ~(0 <= absolute_index /\ absolute_index < obj.array_view.total_length)
    THEN [err |-> "IndexError"]
    ELSE LET s == ScanSegments(obj.array_view.segment_info, 1, absolute_index)
         IN  IF s = 0 THEN [err |-> "RuntimeError"]
             ELSE LET seg == obj.array_view.segment_info[s]
                  IN  [err |-> "none", key |-> seg.key,
                       internal_index |-> absolute_index - seg.start,
                       subject |-> seg.subject]

\* view[absolute_index]: [err, value]
GetItem(obj, absolute_index) ==
    LET c == GetInternalCoords(obj, absolute_index)
    IN  IF c.err # "none" THEN [err |-> c.err]
        ELSE [err |-> "none",
              value |-> obj.subjects_dict[c.subject].answers[c.internal_index + 1]]

\* __setitem__ indexing the Subject by the absolute index
SetItem_AbsoluteIndex(obj, absolute_index, value) ==
    LET c == GetInternalCoords(obj, absolute_index)
    IN  IF c.err # "none" THEN [err |-> c.err, obj |-> obj]
        ELSE IF absolute_index >= SubjectLen(obj.subjects_dict[c.subject])
        THEN [err |-> "IndexError", obj |-> obj]
        ELSE [err |-> "none",
              obj |-> [obj EXCEPT
                  !.subjects_dict[c.subject].answers[absolute_index + 1] = value]]

\* view[absolute_index] = value: [err, obj]
SetItem(obj, absolute_index, value) ==
    LET c == GetInternalCoords(obj, absolute_index)
    IN  IF c.err # "none" THEN [err |-> c.err, obj |-> obj]
        ELSE [err |-> "none",
              obj |-> [obj EXCEPT
                  !.subjects_dict[c.subject].answers[c.internal_index + 1] = value]]

\* data[key]: the Subject the dict holds under key
DictGet(data, key) == data[CHOOSE k \in 1..Len(data) : data[k].name = key]

\* get_relative_position letting the IndexError through
GetRelativePosition_Raises(obj, absolute_index) ==
    LET c == GetInternalCoords(obj, absolute_index)
    IN  IF c.err # "none" THEN [err |-> c.err]
        ELSE [err |-> "none", value |-> << c.key, c.internal_index >>]

\* get_relative_position: <<key, internal_index>>, or "None"
GetRelativePosition(obj, absolute_index) ==
    LET c == GetInternalCoords(obj, absolute_index)
    IN  IF c.err = "IndexError" THEN [err |-> "none", value |-> "None"]
        ELSE IF c.err # "none" THEN [err |-> c.err]
        ELSE [err |-> "none", value |-> << c.key, c.internal_index >>]

\* update_next reporting "full" one answer early
UpdateNext_EarlyFull(obj, answer) ==
    IF CurrentIndex(obj) >= ViewLen(obj)
    THEN [err |-> "IndexError", obj |-> obj]
    ELSE LET w == SetItem(obj, CurrentIndex(obj), answer)
         IN  IF w.err # "none" THEN [err |-> w.err, obj |-> obj]
             ELSE LET o == [w.obj EXCEPT !.array_view.index_to_update = @ + 1]
                  IN  [err |-> "none", obj |-> o,
                       ret |-> (CurrentIndex(o) >= ViewLen(o) - 1)]

\* update_next answering False, instead of raising, on a full view
UpdateNext_FullIsFalse(obj, answer) ==
    IF CurrentIndex(obj) >= ViewLen(obj)
    THEN [err |-> "none", obj |-> obj, ret |-> FALSE]
    ELSE LET w == SetItem(obj, CurrentIndex(obj), answer)
         IN  IF w.err # "none" THEN [err |-> w.err, obj |-> obj]
             ELSE LET o == [w.obj EXCEPT !.array_view.index_to_update = @ + 1]
                  IN  [err |-> "none", obj |-> o, ret |-> (CurrentIndex(o) = ViewLen(o))]

\* update_next: [err, obj, ret]
UpdateNext(obj, answer) ==
    IF CurrentIndex(obj) >= ViewLen(obj)
    THEN [err |-> "IndexError", obj |-> obj]
    ELSE LET w == SetItem(obj, CurrentIndex(obj), answer)
         IN  IF w.err # "none" THEN [err |-> w.err, obj |-> obj]
             ELSE LET o == [w.obj EXCEPT !.array_view.index_to_update = @ + 1]
                  IN  [err |-> "none", obj |-> o, ret |-> (CurrentIndex(o) = ViewLen(o))]

\* erase_last without the `== 0` early return
EraseLast_NoZeroCheck(obj) ==
    IF CurrentIndex(obj) < 0
    THEN [err |-> "IndexError", obj |-> obj]
    ELSE LET o == [obj EXCEPT !.array_view.index_to_update = @ - 1]
             w == SetItem(o, CurrentIndex(o), MISSING)
         IN  IF w.err # "none" THEN [err |-> w.err, obj |-> o]
             ELSE [err |-> "none", obj |-> w.obj, ret |-> TRUE]

\* erase_last moving the cursor back without resetting the slot
EraseLast_KeepsAnswer(obj) ==
    IF CurrentIndex(obj) < 0
    THEN [err |-> "IndexError", obj |-> obj]
    ELSE IF CurrentIndex(obj) = 0
    THEN [err |-> "none", obj |-> obj, ret |-> FALSE]
    ELSE [err |-> "none", obj |-> [obj EXCEPT !.array_view.index_to_update = @ - 1],
          ret |-> TRUE]

\* erase_last: [err, obj, ret]
EraseLast(obj) ==
    IF CurrentIndex(obj) < 0
    THEN [err |-> "IndexError", obj |-> obj]
    ELSE IF CurrentIndex(obj) = 0
    THEN [err |-> "none", obj |-> obj, ret |-> FALSE]
    ELSE LET o == [obj EXCEPT !.array_view.index_to_update = @ - 1]
             w == SetItem(o, CurrentIndex(o), MISSING)
         IN  IF w.err # "none" THEN [err |-> w.err, obj |-> o]
             ELSE [err |-> "none", obj |-> w.obj, ret |-> TRUE]

\* ------------------------------------------------------------------------
\* QuizCategory
\* ------------------------------------------------------------------------

RECURSIVE DictPut(_, _, _)
\* d[value.name] = value from position k of the dict on: an existing key
\* keeps its position and takes the new value, a new key goes last
DictPut(d, k, value) ==
    IF k > Len(d) THEN Append(d, value)
    ELSE IF d[k].name = value.name THEN [d EXCEPT ![k] = value]
    ELSE DictPut(d, k + 1, value)

RECURSIVE SubjectsDict(_, _, _)
\* {subject.name: deepcopy(subject) for subject in subject_blueprints},
\* from blueprint k on, added to the dict d
SubjectsDict(subject_blueprints, k, d) ==
    IF k > Len(subject_blueprints) THEN d
    ELSE SubjectsDict(subject_blueprints, k + 1,
                      DictPut(d, 1, SubjectDeepcopy(subject_blueprints[k])))

\* QuizCategory(name, subject_blueprints): [err, obj]
QuizCategory(name, subject_blueprints) ==
    LET v == Viewed(SubjectsDict(subject_blueprints, 1, << >>))
    IN  IF ViewLen(v) # NUM_QUESTIONS_PER_CATEGORY
        THEN [err |-> "AssertionError"]
        ELSE [err |-> "none",
              obj |-> [name |-> name, subjects_dict |-> v.subjects_dict,
                       array_view |-> v.array_view]]

RECURSIVE Sum(_)
\* sum(...) of a sequence of numbers
Sum(s) == IF s = << >> THEN 0 ELSE s[1] + Sum(Tail(s))

\* QuizCategory.num_correct, num_wrong, num_empty: the sum over
\* map_view.values()
CategoryNumCorrect(cat) ==
    Sum([k \in 1..Len(cat.subjects_dict) |-> SubjectNumCorrect(cat.subjects_dict[k])])

CategoryNumWrong(cat) ==
    Sum([k \in 1..Len(cat.subjects_dict) |-> SubjectNumWrong(cat.subjects_dict[k])])

CategoryNumEmpty(cat) ==
    Sum([k \in 1..Len(cat.subjects_dict) |-> SubjectNumEmpty(cat.subjects_dict[k])])

\* QuizCategory.num_net, in quarters: the sum of the subjects' floats is
\* exact, each being a multiple of 0.25
CategoryNumNet(cat) ==
    Sum([k \in 1..Len(cat.subjects_dict) |-> SubjectNumNet(cat.subjects_dict[k])])

\* QuizCategory.to_dict; "subjects" is the dict in its order
CategoryToDict(cat) ==
    [name |-> cat.name,
     subjects |-> [k \in 1..Len(cat.subjects_dict) |-> SubjectToDict(cat.subjects_dict[k])]]

\* ------------------------------------------------------------------------
\* Quiz: [theoretical, clinical, current, answers_painted]; current names
\* the category self._current refers to.  created_at, the date of
\* construction, is read by to_dict and save_quiz_record only and is left
\* out.
\* ------------------------------------------------------------------------

\* Quiz(theoretical, clinical): [err, quiz]
QuizNew(theoretical, clinical) ==
    LET t == QuizCategory("Temel", theoretical)
        c == QuizCategory("Klinik", clinical)
    IN  IF t.err # "none" THEN [err |-> t.err]
        ELSE IF c.err # "none" THEN [err |-> c.err]
        ELSE [err |-> "none",
              quiz |-> [theoretical |-> t.obj, clinical |-> c.obj,
                        current |-> "theoretical", answers_painted |-> FALSE]]

\* Quiz() with the default blueprints
DefaultQuiz == QuizNew(theoretical_blueprints, clinical_blueprints).quiz

\* new_quiz before the constructor has run; also the quiz of the runs that
\* build no Quiz
NoQuiz == "None"

\* self._current
Current(q) == IF q.current = "clinical" THEN q.clinical ELSE q.theoretical

\* q with self._current's category replaced by obj
WithCurrent(q, obj) ==
    IF q.current = "clinical" THEN [q EXCEPT !.clinical = obj]
    ELSE [q EXCEPT !.theoretical = obj]

\* Quiz.update reporting completion whenever the current view fills
QuizUpdate_AnyFullCompletes(q, answer) ==
    LET r == UpdateNext(Current(q), answer)
        q1 == WithCurrent(q, r.obj)
    IN  IF r.err # "none" THEN [err |-> r.err, quiz |-> q1]
        ELSE IF ~r.ret THEN [err |-> "none", quiz |-> q1, ret |-> FALSE]
        ELSE [err |-> "none", quiz |-> [q1 EXCEPT !.current = "clinical"], ret |-> TRUE]

\* Quiz.update writing the answer that fills theoretical to clinical as well
QuizUpdate_FillsBoth(q, answer) ==
    LET r == UpdateNext(Current(q), answer)
        q1 == WithCurrent(q, r.obj)
    IN  IF r.err # "none" THEN [err |-> r.err, quiz |-> q1]
        ELSE IF ~r.ret THEN [err |-> "none", quiz |-> q1, ret |-> FALSE]
        ELSE IF q1.current # "clinical"
        THEN [err |-> "none",
              quiz |-> [q1 EXCEPT !.current = "clinical",
                                  !.clinical = UpdateNext(q1.clinical, answer).obj],
              ret |-> FALSE]
        ELSE [err |-> "none", quiz |-> q1, ret |-> TRUE]

\* Quiz.update: [err, quiz, ret]
QuizUpdate(q, answer) ==
    LET r == UpdateNext(Current(q), answer)
        q1 == WithCurrent(q, r.obj)
    IN  IF r.err # "none" THEN [err |-> r.err, quiz |-> q1]
        ELSE IF ~r.ret THEN [err |-> "none", quiz |-> q1, ret |-> FALSE]
        ELSE IF q1.current # "clinical"
        THEN [err |-> "none", quiz |-> [q1 EXCEPT !.current = "clinical"], ret |-> FALSE]
        ELSE [err |-> "none", quiz |-> q1, ret |-> TRUE]

\* Quiz.erase going back to theoretical when clinical has nothing to erase
QuizErase_SwitchesBack(q) ==
    LET r == EraseLast(Current(q))
        q1 == WithCurrent(q, r.obj)
    IN  IF r.err # "none" THEN [err |-> r.err, quiz |-> q1]
        ELSE IF ~r.ret /\ q.current = "clinical"
        THEN LET q2 == [q1 EXCEPT !.current = "theoretical"]
                 r2 == EraseLast(Current(q2))
             IN  [err |-> r2.err, quiz |-> WithCurrent(q2, r2.obj), ret |-> r2.ret]
        ELSE [err |-> "none", quiz |-> q1, ret |-> r.ret]

\* Quiz.erase: [err, quiz, ret]
QuizErase(q) ==
    LET r == EraseLast(Current(q))
        q1 == WithCurrent(q, r.obj)
    IN  IF r.err # "none" THEN [err |-> r.err, quiz |-> q1]
        ELSE [err |-> "none", quiz |-> q1, ret |-> r.ret]

\* Quiz.to_dict, without "created_at"
QuizToDict(q) ==
    [theoretical |-> CategoryToDict(q.theoretical),
     clinical |-> CategoryToDict(q.clinical)]

\* Quiz.paint_answers: the screen is not modelled, the flag is
PaintAnswers(q) == [q EXCEPT !.answers_painted = TRUE]

\* ------------------------------------------------------------------------
\* tus_record.py
\* ------------------------------------------------------------------------

NUM_QUESTIONS == 200

\* the characters read_single_char can return: "\x03", "\x08", "\x7f", the
\* four Answer values, and OTHER_KEY for every other character
CTRL_C == "x03"
BACKSPACE == "x08"
DELETE == "x7f"
OTHER_KEY == "q"

Keys == {CTRL_C, BACKSPACE, DELETE, OTHER_KEY} \cup Answer

\* `char in Answer` (EnumType.__contains__ on a str).  Python >= 3.12
\* (by_value): TRUE iff char is the value of a member.  Python 3.11, the
\* first version with StrEnum: a str is no Enum member, TypeError.
AnswerContains(char, by_value) ==
    IF ~by_value THEN "TypeError"
    ELSE IF char \in Answer THEN "True" ELSE "False"

\* ------------------------------------------------------------------------
\* State
\* ------------------------------------------------------------------------

VARIABLES
    quiz,               \* the Quiz under test / new_quiz of record_quiz
    view,               \* SpecView: a dict and the view built over it
    op,                 \* the call made by the last step: [name, answer, index, cat]
    ret,                \* what that call returned ("True", "False", a value) or raised
    pc,                 \* record_quiz: "start", "read", "aborted" (in the handler of
                        \* line 43), "returned_quiz", "returned_None", or the
                        \* exception that left it; "idle" outside the loop
    quiz_complete,      \* record_quiz's local
    char_input,         \* record_quiz's local: the last character read
    contains_by_value,  \* the interpreter's `str in Enum`: TRUE for Python >= 3.12
    num_updates,        \* SpecFill: the number of Quiz.update calls made
    store,              \* SpecTwo: the answer lists as objects, see below
    args                \* SpecConstruct: the blueprint lists given to Quiz(...)

vars == << quiz, view, op, ret, pc, quiz_complete, char_input, contains_by_value,
           num_updates, store, args >>

\* outside SpecTwo no second instance exists
NoStore == [heap |-> << >>]

\* Quiz(): theoretical and clinical default to the module's blueprints
DefaultArgs == [theoretical |-> theoretical_blueprints, clinical |-> clinical_blueprints]

\* a view built straight from a dict: no blueprint lists are passed
NoArgs == [theoretical |-> << >>, clinical |-> << >>]

Bool(b) == IF b THEN "True" ELSE "False"

\* the outcome of a call as ret shows it
Outcome(r) == IF r.err # "none" THEN r.err ELSE Bool(r.ret)

Call(name, answer, index, cat) ==
    [name |-> name, answer |-> answer, index |-> index, cat |-> cat]

NoCall == Call("none", "", -1, "")

\* the answer entered for the question at absolute index i outside the free
\* questions: D, Y, B in turn
ScriptedAnswer(i) ==
    IF i % 3 = 0 THEN CORRECT ELSE IF i % 3 = 1 THEN WRONG ELSE EMPTY

\* the answers the environment may enter for the question at index i
AnswerChoices(i) == IF i < FreeQuestions THEN Answer ELSE {ScriptedAnswer(i)}

\* ------------------------------------------------------------------------
\* Spec: any sequence of Quiz.update and Quiz.erase calls on Quiz()
\* ------------------------------------------------------------------------

Init ==
    /\ quiz = DefaultQuiz
    /\ view = Viewed(<< >>)
    /\ op = NoCall
    /\ ret = "None"
    /\ pc = "idle"
    /\ quiz_complete = FALSE
    /\ char_input = ""
    /\ contains_by_value = TRUE
    /\ num_updates = 0
    /\ store = NoStore
    /\ args = DefaultArgs

\* quiz.update(answer)
DoUpdate(answer) ==
    LET r == QuizUpdate(quiz, answer)
    IN  /\ quiz' = r.quiz
        /\ ret' = Outcome(r)
        /\ op' = Call("update", answer, CurrentIndex(Current(quiz)), quiz.current)

\* quiz.erase()
DoErase ==
    LET r == QuizErase(quiz)
    IN  /\ quiz' = r.quiz
        /\ ret' = Outcome(r)
        /\ op' = Call("erase", "", CurrentIndex(Current(quiz)), quiz.current)

Update ==
    /\ \E answer \in AnswerChoices(CurrentIndex(Current(quiz))) : DoUpdate(answer)
    /\ UNCHANGED << view, pc, quiz_complete, char_input, contains_by_value, num_updates, store, args >>

Erase ==
    /\ DoErase
    /\ UNCHANGED << view, pc, quiz_complete, char_input, contains_by_value, num_updates, store, args >>

Next == Update \/ Erase

Spec == Init /\ [][Next]_vars

\* ------------------------------------------------------------------------
\* SpecFill: Quiz.update and nothing else, NUM_QUESTIONS times
\* ------------------------------------------------------------------------

FillUpdate ==
    /\ num_updates < NUM_QUESTIONS
    /\ \E answer \in AnswerChoices(CurrentIndex(Current(quiz))) : DoUpdate(answer)
    /\ num_updates' = num_updates + 1
    /\ UNCHANGED << view, pc, quiz_complete, char_input, contains_by_value, store, args >>

NextFill == FillUpdate

SpecFill == Init /\ [][NextFill]_vars

\* ------------------------------------------------------------------------
\* SpecLoop: record_quiz, one action per character read
\* ------------------------------------------------------------------------

InitLoop ==
    /\ quiz = DefaultQuiz
    /\ view = Viewed(<< >>)
    /\ op = NoCall
    /\ ret = "None"
    /\ pc = "start"
    /\ quiz_complete = FALSE
    /\ char_input = ""
    /\ contains_by_value \in BOOLEAN
    /\ num_updates = 0
    /\ store = NoStore
    /\ args = DefaultArgs

\* lines 13-28: the prompts, the first paint, quiz_complete = False
RecordStart ==
    /\ pc = "start"
    /\ quiz' = PaintAnswers(quiz)
    /\ quiz_complete' = FALSE
    /\ pc' = "read"
    /\ UNCHANGED << view, op, ret, char_input, contains_by_value, num_updates, store, args >>

\* `while True`: the loop reads on after the quiz is complete
Reading_IgnoresComplete == pc = "read"

\* `while not quiz_complete`, about to read a character
Reading == pc = "read" /\ ~quiz_complete

\* the points of `new_quiz.update(answer)` (line 41) at which an interrupt
\* finds a different Quiz: in the call before the store of tus_types.py:182,
\* after the store, after the increment of line 183, after the switch of
\* line 307, and after the return, before quiz_complete is assigned
UpdateCuts(q, answer) ==
    LET v == Current(q)
        w == SetItem(v, CurrentIndex(v), answer)
        u == UpdateNext(v, answer)
        r == QuizUpdate(q, answer)
    IN  IF r.err # "none" THEN { [quiz |-> q, ret |-> "KeyboardInterrupt"] }
        ELSE { [quiz |-> q, ret |-> "KeyboardInterrupt"],
               [quiz |-> WithCurrent(q, w.obj), ret |-> "KeyboardInterrupt"],
               [quiz |-> WithCurrent(q, u.obj), ret |-> "KeyboardInterrupt"],
               [quiz |-> r.quiz, ret |-> "KeyboardInterrupt"],
               [quiz |-> r.quiz, ret |-> Outcome(r)] }

\* the points of `new_quiz.erase()` (line 36) at which an interrupt finds a
\* different Quiz: in the call before the decrement of tus_types.py:191
\* (the only point when line 188 raises or line 190 returns), after the
\* decrement, and, when the store of line 192 does not raise, after it
EraseCuts(q) ==
    LET v == Current(q)
        r == QuizErase(q)
    IN  IF CurrentIndex(v) <= 0
        THEN { [quiz |-> q, ret |-> "KeyboardInterrupt"] }
        ELSE { [quiz |-> q, ret |-> "KeyboardInterrupt"],
               [quiz |-> WithCurrent(q, [v EXCEPT !.array_view.index_to_update = @ - 1]),
                ret |-> "KeyboardInterrupt"] }
             \cup (IF r.err # "none" THEN {}
                   ELSE { [quiz |-> r.quiz, ret |-> "KeyboardInterrupt"] })

\* Ctrl-C reaches the program as the character "\x03" returned by
\* read_single_char (msvcrt.getch, or a terminal with ISIG off), which line
\* 34 turns into KeyboardInterrupt, or as SIGINT, which raises
\* KeyboardInterrupt wherever the program is: read_single_char restores the
\* terminal after each read and tty.setcbreak leaves ISIG on.

\* the signal before the try (lines 13-28), in or around the first paint:
\* the exception leaves record_quiz
AbortBeforeLoop ==
    /\ pc = "start"
    /\ quiz' \in {quiz, PaintAnswers(quiz)}
    /\ pc' = "KeyboardInterrupt"
    /\ UNCHANGED << view, op, ret, quiz_complete, char_input,
                    contains_by_value, num_updates, store, args >>

\* the character "\x03", lines 33-34
AbortCharacter ==
    /\ Reading
    /\ char_input' = CTRL_C
    /\ pc' = "aborted"
    /\ op' = NoCall
    /\ ret' = "None"
    /\ UNCHANGED << quiz, view, quiz_complete, contains_by_value, num_updates,
                    store, args >>

\* the signal at the while test or in the read (after the last update, and
\* in the paint that ends a handler, included): nothing has changed
AbortSignal ==
    /\ pc = "read"
    /\ pc' = "aborted"
    /\ UNCHANGED << quiz, view, op, ret, quiz_complete, char_input,
                    contains_by_value, num_updates, store, args >>

\* the signal after a character was read, before any call and before the
\* `continue` of line 40 (lines 33-39)
AbortAfterRead ==
    /\ Reading
    /\ \E char \in Keys \ {CTRL_C} :
         /\ char \in Answer => char \in AnswerChoices(CurrentIndex(Current(quiz)))
         /\ char_input' = char
    /\ pc' = "aborted"
    /\ UNCHANGED << quiz, view, op, ret, quiz_complete, contains_by_value,
                    num_updates, store, args >>

\* the signal inside `new_quiz.update(Answer(char_input))`, line 41
AbortInUpdate ==
    /\ Reading
    /\ \E char \in Keys \ {CTRL_C, BACKSPACE, DELETE} :
         /\ AnswerContains(char, contains_by_value) = "True"
         /\ char \in AnswerChoices(CurrentIndex(Current(quiz)))
         /\ \E cut \in UpdateCuts(quiz, char) :
              /\ char_input' = char
              /\ op' = Call("update", char, CurrentIndex(Current(quiz)), quiz.current)
              /\ ret' = cut.ret
              /\ quiz' = cut.quiz
    /\ pc' = "aborted"
    /\ UNCHANGED << view, quiz_complete, contains_by_value, num_updates, store, args >>

\* the signal inside `new_quiz.erase()`, line 36
AbortInErase ==
    /\ Reading
    /\ \E char \in {BACKSPACE, DELETE} :
         \E cut \in EraseCuts(quiz) :
              /\ char_input' = char
              /\ op' = Call("erase", "", CurrentIndex(Current(quiz)), quiz.current)
              /\ ret' = cut.ret
              /\ quiz' = cut.quiz
    /\ pc' = "aborted"
    /\ UNCHANGED << view, quiz_complete, contains_by_value, num_updates, store, args >>

\* the signal handled while the loop jumps back to its test, after a
\* handler has run (the `continue` of lines 38 and 40, the closing jump of
\* line 31): CPython (3.11 to 3.13) raises the KeyboardInterrupt at an
\* instruction that the try's exception table does not cover, so line 43
\* does not catch it and it leaves record_quiz
AbortAtJump ==
    /\ Reading
    /\ char_input # ""
    /\ pc' = "KeyboardInterrupt"
    /\ UNCHANGED << quiz, view, op, ret, quiz_complete, char_input,
                    contains_by_value, num_updates, store, args >>

\* the signal after the loop has ended, in the print of line 47: outside
\* the try, the exception leaves record_quiz
AbortAfterLoop ==
    /\ pc = "read"
    /\ quiz_complete
    /\ pc' = "KeyboardInterrupt"
    /\ UNCHANGED << quiz, view, op, ret, quiz_complete, char_input,
                    contains_by_value, num_updates, store, args >>

\* a further signal in the handler's print (line 44), which no try
\* encloses: the exception leaves record_quiz
AbortInHandler ==
    /\ pc = "aborted"
    /\ pc' = "KeyboardInterrupt"
    /\ UNCHANGED << quiz, view, op, ret, quiz_complete, char_input,
                    contains_by_value, num_updates, store, args >>

\* Ctrl-C, in any of its forms
KeyAbort ==
    \/ AbortBeforeLoop
    \/ AbortCharacter
    \/ AbortSignal
    \/ AbortAfterRead
    \/ AbortInUpdate
    \/ AbortInErase
    \/ AbortAtJump
    \/ AbortAfterLoop
    \/ AbortInHandler

\* lines 44-45: "Quiz aborted by user.", return None
ReturnNone ==
    /\ pc = "aborted"
    /\ pc' = "returned_None"
    /\ UNCHANGED << quiz, view, op, ret, quiz_complete, char_input,
                    contains_by_value, num_updates, store, args >>

\* "\x08" or "\x7f": erase, paint, continue
KeyBackspace ==
    /\ Reading
    /\ \E char \in {BACKSPACE, DELETE} :
         LET r == QuizErase(quiz)
         IN  /\ char_input' = char
             /\ op' = Call("erase", "", CurrentIndex(Current(quiz)), quiz.current)
             /\ ret' = Outcome(r)
             /\ quiz' = IF r.err = "none" THEN PaintAnswers(r.quiz) ELSE r.quiz
             /\ pc' = IF r.err = "none" THEN "read" ELSE r.err
    /\ UNCHANGED << view, quiz_complete, contains_by_value, num_updates, store, args >>

\* the characters that reach `char_input not in Answer`
Tested == Keys \ {CTRL_C, BACKSPACE, DELETE}

\* the membership test raises: the exception leaves record_quiz
KeyTypeError ==
    /\ Reading
    /\ \E char \in Tested :
         /\ AnswerContains(char, contains_by_value) = "TypeError"
         /\ char_input' = char
    /\ pc' = "TypeError"
    /\ op' = NoCall
    /\ ret' = "None"
    /\ UNCHANGED << quiz, view, quiz_complete, contains_by_value, num_updates, store, args >>

\* not in Answer: continue
KeyIgnored ==
    /\ Reading
    /\ \E char \in Tested :
         /\ AnswerContains(char, contains_by_value) = "False"
         /\ char_input' = char
    /\ op' = NoCall
    /\ ret' = "None"
    /\ UNCHANGED << quiz, view, pc, quiz_complete, contains_by_value, num_updates, store, args >>

\* in Answer: quiz_complete = update(Answer(char_input)), paint
KeyAnswer ==
    /\ Reading
    /\ \E char \in Tested :
         /\ AnswerContains(char, contains_by_value) = "True"
         /\ char \in AnswerChoices(CurrentIndex(Current(quiz)))
         /\ LET r == QuizUpdate(quiz, char)
            IN  /\ char_input' = char
                /\ op' = Call("update", char, CurrentIndex(Current(quiz)), quiz.current)
                /\ ret' = Outcome(r)
                /\ quiz' = IF r.err = "none" THEN PaintAnswers(r.quiz) ELSE r.quiz
                /\ quiz_complete' = IF r.err = "none" THEN r.ret ELSE quiz_complete
                /\ pc' = IF r.err = "none" THEN "read" ELSE r.err
    /\ UNCHANGED << view, contains_by_value, num_updates, store, args >>

\* the while test fails: "Quiz entry successful.", return new_quiz
ReturnQuiz ==
    /\ pc = "read"
    /\ quiz_complete
    /\ pc' = "returned_quiz"
    /\ UNCHANGED << quiz, view, op, ret, quiz_complete, char_input, contains_by_value,
                    num_updates, store, args >>

NextLoop ==
    \/ RecordStart
    \/ KeyAbort
    \/ ReturnNone
    \/ KeyBackspace
    \/ KeyTypeError
    \/ KeyIgnored
    \/ KeyAnswer
    \/ ReturnQuiz

SpecLoop == InitLoop /\ [][NextLoop]_vars

\* the runs in which no further interrupt arrives once line 43 has caught
\* one.  The handler is straight-line code (a print and a return), so it
\* runs to its end: ReturnNone is weakly fair.
NextOneAbort ==
    \/ RecordStart
    \/ AbortBeforeLoop
    \/ AbortCharacter
    \/ AbortSignal
    \/ AbortAfterRead
    \/ AbortInUpdate
    \/ AbortInErase
    \/ AbortAtJump
    \/ AbortAfterLoop
    \/ ReturnNone
    \/ KeyBackspace
    \/ KeyTypeError
    \/ KeyIgnored
    \/ KeyAnswer
    \/ ReturnQuiz

SpecOneAbort == InitLoop /\ [][NextOneAbort]_vars /\ WF_vars(ReturnNone)

\* ------------------------------------------------------------------------
\* SpecView: any sequence of calls on a view over a small dict
\* ------------------------------------------------------------------------

\* the dict whose k-th subject is named "k" and has lens[k] questions
DictOf(lens) == [k \in 1..Len(lens) |-> Subject(ToString(k), lens[k])]

Dicts ==
    { DictOf(lens) : lens \in
        { l \in UNION { [1..n -> 0..MaxViewLen] : n \in 0..(MaxViewLen + 1) } :
            Sum(l) <= MaxViewLen } }

InitView ==
    /\ quiz = NoQuiz
    /\ view \in { Viewed(d) : d \in Dicts }
    /\ op = NoCall
    /\ ret = "None"
    /\ pc = "idle"
    /\ quiz_complete = FALSE
    /\ char_input = ""
    /\ contains_by_value = TRUE
    /\ num_updates = 0
    /\ store = NoStore
    /\ args = NoArgs

\* the indices tried: the valid ones, and one on either side
Indices == -1..ViewLen(view)

ViewFrame == UNCHANGED << quiz, pc, quiz_complete, char_input, contains_by_value,
                          num_updates, store, args >>

ViewUpdateNext ==
    /\ \E answer \in Answer :
         LET r == UpdateNext(view, answer)
         IN  /\ view' = r.obj
             /\ ret' = Outcome(r)
             /\ op' = Call("update_next", answer, CurrentIndex(view), "view")
    /\ ViewFrame

ViewEraseLast ==
    /\ LET r == EraseLast(view)
       IN  /\ view' = r.obj
           /\ ret' = Outcome(r)
           /\ op' = Call("erase_last", "", CurrentIndex(view), "view")
    /\ ViewFrame

ViewSet ==
    /\ \E i \in Indices, value \in Answer :
         LET r == SetItem(view, i, value)
         IN  /\ view' = r.obj
             /\ ret' = IF r.err # "none" THEN r.err ELSE "None"
             /\ op' = Call("set", value, i, "view")
    /\ ViewFrame

ViewGet ==
    /\ \E i \in Indices :
         LET r == GetItem(view, i)
         IN  /\ ret' = IF r.err # "none" THEN r.err ELSE r.value
             /\ op' = Call("get", "", i, "view")
    /\ UNCHANGED view
    /\ ViewFrame

\* view.get_relative_position(i): ret is the pair, or "None"
ViewLocate ==
    /\ \E i \in Indices :
         LET r == GetRelativePosition(view, i)
         IN  /\ ret' = IF r.err # "none" THEN r.err ELSE r.value
             /\ op' = Call("locate", "", i, "view")
    /\ UNCHANGED view
    /\ ViewFrame

NextView == ViewUpdateNext \/ ViewEraseLast \/ ViewSet \/ ViewGet \/ ViewLocate

SpecView == InitView /\ [][NextView]_vars

\* ------------------------------------------------------------------------
\* SpecTwo: two Quiz() instances built from the module's blueprints.
\*
\* Whether two Subjects share answers is a matter of object identity, so
\* here the answer lists are objects: store.heap[r] is the list with
\* reference r.  store.blueprints, store.mine and store.others give, per
\* category and dict position, the reference of the list that the
\* blueprint Subject, the Subject of `quiz` and the Subject of store.other
\* hold.  An operation on an instance reads its lists from the heap, acts,
\* and writes them back.  (The blueprints' names are distinct, so dict
\* position k holds the copy of blueprint k.)
\* ------------------------------------------------------------------------

\* Subject.__copy__: the new Subject's __dict__ holds the same answers list
CopyAnswers(heap, r) == [heap |-> heap, ref |-> r]

\* Subject.__deepcopy__ (deepcopy of the answers list): a new list with the
\* same elements
DeepcopyAnswers(heap, r) == [heap |-> Append(heap, heap[r]), ref |-> Len(heap) + 1]

RECURSIVE CategoryRefs(_, _, _, _)
\* QuizCategory.__init__: deepcopy of blueprint k.. in turn; [heap, refs]
CategoryRefs(heap, blueprint_refs, k, refs) ==
    IF k > Len(blueprint_refs) THEN [heap |-> heap, refs |-> refs]
    ELSE LET c == DeepcopyAnswers(heap, blueprint_refs[k])
         IN  CategoryRefs(c.heap, blueprint_refs, k + 1, Append(refs, c.ref))

\* Quiz(): the theoretical category, then the clinical one; [heap, refs]
QuizRefs(heap, blueprint_refs) ==
    LET t == CategoryRefs(heap, blueprint_refs.theoretical, 1, << >>)
        c == CategoryRefs(t.heap, blueprint_refs.clinical, 1, << >>)
    IN  [heap |-> c.heap, refs |-> [theoretical |-> t.refs, clinical |-> c.refs]]

\* the module's blueprint Subjects: their lists, and the references to them
BlueprintHeap ==
    [k \in 1..(Len(theoretical_blueprints) + Len(clinical_blueprints)) |->
        IF k <= Len(theoretical_blueprints) THEN theoretical_blueprints[k].answers
        ELSE clinical_blueprints[k - Len(theoretical_blueprints)].answers]

BlueprintRefs ==
    [theoretical |-> [k \in 1..Len(theoretical_blueprints) |-> k],
     clinical |-> [k \in 1..Len(clinical_blueprints) |->
                      Len(theoretical_blueprints) + k]]

\* the category with each Subject's answers read from its list
LoadCategory(cat, heap, refs) ==
    [cat EXCEPT !.subjects_dict =
        [k \in 1..Len(cat.subjects_dict) |->
            [cat.subjects_dict[k] EXCEPT !.answers = heap[refs[k]]]]]

\* the instance q as the heap shows it
Load(q, heap, refs) ==
    [q EXCEPT !.theoretical = LoadCategory(q.theoretical, heap, refs.theoretical),
              !.clinical = LoadCategory(q.clinical, heap, refs.clinical)]

\* the heap after q's Subjects wrote their answers to their lists
Save(q, heap, refs) ==
    [r \in 1..Len(heap) |->
        IF \E k \in 1..Len(refs.theoretical) : refs.theoretical[k] = r
        THEN q.theoretical.subjects_dict[
                 CHOOSE k \in 1..Len(refs.theoretical) : refs.theoretical[k] = r].answers
        ELSE IF \E k \in 1..Len(refs.clinical) : refs.clinical[k] = r
        THEN q.clinical.subjects_dict[
                 CHOOSE k \in 1..Len(refs.clinical) : refs.clinical[k] = r].answers
        ELSE heap[r]]

\* first = Quiz(); second = Quiz(): `quiz` is the one the calls are made on
TwoQuizzes(acting) ==
    LET a == QuizRefs(BlueprintHeap, BlueprintRefs)
        b == QuizRefs(a.heap, BlueprintRefs)
    IN  [heap |-> b.heap,
         blueprints |-> BlueprintRefs,
         mine |-> IF acting = 1 THEN a.refs ELSE b.refs,
         others |-> IF acting = 1 THEN b.refs ELSE a.refs,
         other |-> DefaultQuiz]

InitTwo ==
    /\ quiz = DefaultQuiz
    /\ view = Viewed(<< >>)
    /\ op = NoCall
    /\ ret = "None"
    /\ pc = "idle"
    /\ quiz_complete = FALSE
    /\ char_input = ""
    /\ contains_by_value = TRUE
    /\ num_updates = 0
    /\ store \in { TwoQuizzes(acting) : acting \in {1, 2} }
    /\ args = DefaultArgs

TwoFrame == UNCHANGED << view, pc, quiz_complete, char_input, contains_by_value,
                         num_updates, args >>

\* quiz.update(answer) with the other instance alive
TwoUpdate ==
    /\ \E answer \in AnswerChoices(CurrentIndex(Current(quiz))) :
         LET r == QuizUpdate(Load(quiz, store.heap, store.mine), answer)
         IN  /\ quiz' = r.quiz
             /\ store' = [store EXCEPT !.heap = Save(r.quiz, store.heap, store.mine)]
             /\ ret' = Outcome(r)
             /\ op' = Call("update", answer, CurrentIndex(Current(quiz)), quiz.current)
    /\ TwoFrame

\* quiz.erase() with the other instance alive
TwoErase ==
    /\ LET r == QuizErase(Load(quiz, store.heap, store.mine))
       IN  /\ quiz' = r.quiz
           /\ store' = [store EXCEPT !.heap = Save(r.quiz, store.heap, store.mine)]
           /\ ret' = Outcome(r)
           /\ op' = Call("erase", "", CurrentIndex(Current(quiz)), quiz.current)
    /\ TwoFrame

NextTwo == TwoUpdate \/ TwoErase

SpecTwo == InitTwo /\ [][NextTwo]_vars

\* ------------------------------------------------------------------------
\* SpecConstruct: Quiz(theoretical, clinical) on blueprint lists
\* ------------------------------------------------------------------------

\* the blueprint Subjects tried: two names (so that lists can repeat a
\* name), and lengths that make sums below, at and above the expected count
BlueprintSubjects ==
    { Subject(name, question_count) :
        name \in {"a", "b"},
        question_count \in {0, NUM_QUESTIONS_PER_CATEGORY \div 2,
                            NUM_QUESTIONS_PER_CATEGORY} }

BlueprintLists ==
    UNION { [1..n -> BlueprintSubjects] : n \in 0..MaxBlueprints }

InitConstruct ==
    /\ quiz = NoQuiz
    /\ view = Viewed(<< >>)
    /\ op = NoCall
    /\ ret = "None"
    /\ pc = "new"
    /\ quiz_complete = FALSE
    /\ char_input = ""
    /\ contains_by_value = TRUE
    /\ num_updates = 0
    /\ store = NoStore
    /\ args \in [theoretical : BlueprintLists \cup {theoretical_blueprints},
                 clinical : BlueprintLists \cup {clinical_blueprints}]

\* Quiz(args.theoretical, args.clinical)
Construct ==
    /\ pc = "new"
    /\ LET r == QuizNew(args.theoretical, args.clinical)
       IN  /\ quiz' = IF r.err = "none" THEN r.quiz ELSE quiz
           /\ pc' = IF r.err = "none" THEN "constructed" ELSE r.err
           /\ ret' = IF r.err = "none" THEN "None" ELSE r.err
    /\ op' = Call("Quiz", "", -1, "")
    /\ UNCHANGED << view, quiz_complete, char_input, contains_by_value, num_updates,
                    store, args >>

NextConstruct == Construct

SpecConstruct == InitConstruct /\ [][NextConstruct]_vars

\* ------------------------------------------------------------------------
\* Properties
\* ------------------------------------------------------------------------

\* the category of q named by a call's cat field
Cat(q, cat) == IF cat = "clinical" THEN q.clinical ELSE q.theoretical

\* the call returned (True or False) rather than raised
Returned(r) == r \in {"True", "False"}

\* absolute index i is one of obj's view
InRange(obj, i) == 0 <= i /\ i < ViewLen(obj)

\* the view is full
Full(obj) == CurrentIndex(obj) = ViewLen(obj)

\* the update call of this step writes the final slot of the clinical view:
\* the clinical cursor moves from length - 1 to length
FillsClinical ==
    /\ CurrentIndex(quiz.clinical) = ViewLen(quiz.clinical) - 1
    /\ Full(quiz'.clinical)

\* C1 as stated: a Quiz.update call returns True if and only if it writes
\* the final slot of the clinical view; every other update call, the one
\* that fills the theoretical view included, returns False.
C1_EveryOtherUpdateReturnsFalse ==
    [][ op'.name = "update" =>
          ret' = (IF FillsClinical THEN "True" ELSE "False") ]_vars

\* C1 amended: a Quiz.update call returns True if and only if it writes the
\* final slot of the clinical view; an update call made while the active
\* view is already full raises IndexError; every other update call, the
\* one that fills the theoretical view included, returns False.
C1_UpdateTrueIffFillsClinical ==
    [][ op'.name = "update" =>
          ret' = (IF FillsClinical THEN "True"
                  ELSE IF Full(Current(quiz)) THEN "IndexError"
                  ELSE "False") ]_vars

\* C1 witness: the update that filled the clinical view returned True.
C1_Witness ==
    /\ op.name = "update"
    /\ ret = "True"
    /\ Full(quiz.clinical)
    /\ Full(quiz.theoretical)

\* C2: in a run of NUM_QUESTIONS updates and no erase on Quiz(), the active
\* category is theoretical before each of the first 100 calls and clinical
\* before each of the next 100 (and after the last): the switch happens
\* once, inside the 100th call.
C2_SwitchInsideCall100 ==
    /\ num_updates < NUM_QUESTIONS_PER_CATEGORY => quiz.current = "theoretical"
    /\ num_updates >= NUM_QUESTIONS_PER_CATEGORY => quiz.current = "clinical"

\* C2 witness: all 200 calls made, the last one completing the quiz.
C2_Witness ==
    /\ num_updates = NUM_QUESTIONS
    /\ quiz.current = "clinical"
    /\ op.name = "update"
    /\ ret = "True"

\* C3: active starts as theoretical, and once it is clinical it is clinical
\* in every later state, whatever update and erase calls follow.
C3_ActiveNeverReverts ==
    /\ quiz.current = "theoretical"
    /\ [][ quiz.current = "clinical" => quiz'.current = "clinical" ]_vars

\* C3 witness: an erase that emptied the clinical view, active still
\* clinical.
C3_Witness ==
    /\ quiz.current = "clinical"
    /\ op.name = "erase"
    /\ op.index = 1
    /\ ret = "True"
    /\ CurrentIndex(quiz.clinical) = 0

\* C4: in the recording loop, Backspace right after an accepted answer key
\* deletes that answer: the slot it was written to is MISSING again and
\* the cursor of the view it was written to is back where it was, for
\* every answer position.  (Both calls have returned: neither was cut
\* short by an interrupt.)
C4_BackspaceDeletesLastAnswer ==
    [][ (op.name = "update" /\ Returned(ret) /\ op'.name = "erase" /\ Returned(ret')) =>
          /\ GetItem(Cat(quiz', op.cat), op.index).value = MISSING
          /\ CurrentIndex(Cat(quiz', op.cat)) = op.index ]_vars

\* C5: the cursor of a view is within [0, total_length] in every state;
\* update_next never decreases it and erase_last never increases it,
\* failing calls included.
C5_CursorInRangeAndMonotone ==
    /\ [](0 <= CurrentIndex(view) /\ CurrentIndex(view) <= ViewLen(view))
    /\ [][ /\ op'.name = "update_next" => CurrentIndex(view') >= CurrentIndex(view)
           /\ op'.name = "erase_last" => CurrentIndex(view') <= CurrentIndex(view) ]_vars

\* C5 witness: an update_next that failed on a full, non-empty view.
C5_Witness ==
    /\ op.name = "update_next"
    /\ ret = "IndexError"
    /\ ViewLen(view) > 0
    /\ Full(view)

\* C6: the recording loop never calls Quiz.update with MISSING, so every
\* slot below its view's cursor holds CORRECT, WRONG or EMPTY.
C6_MissingNeverEntered ==
    /\ op.name = "update" => op.answer # MISSING
    /\ \A cat \in {"theoretical", "clinical"} :
         \A i \in 0..(CurrentIndex(Cat(quiz, cat)) - 1) :
            GetItem(Cat(quiz, cat), i).value \in {CORRECT, WRONG, EMPTY}

\* C7: Quiz.erase (erase_last) called with the active view's cursor at 0
\* returns False and changes nothing: cursors, slots and active.
C7_EraseAtZeroIsNoOp ==
    [][ (op'.name = "erase" /\ CurrentIndex(Current(quiz)) = 0) =>
          (ret' = "False" /\ quiz' = quiz) ]_vars

\* C7 witness: an erase on the empty clinical view, the theoretical view
\* full and untouched.
C7_Witness ==
    /\ op.name = "erase"
    /\ op.index = 0
    /\ ret = "False"
    /\ quiz.current = "clinical"
    /\ Full(quiz.theoretical)

\* C8: on a view with cursor c < length, update_next(v) then erase_last()
\* leaves the cursor at c and slot c MISSING (whatever v and whatever the
\* slot held), erase_last returning True and every other slot as it was.
C8_UpdateThenEraseResetsSlot ==
    \A v \in Answer :
        LET c == CurrentIndex(view)
            u == UpdateNext(view, v)
            e == EraseLast(u.obj)
        IN  c < ViewLen(view) =>
              /\ u.err = "none" /\ e.err = "none"
              /\ e.ret = TRUE
              /\ CurrentIndex(e.obj) = c
              /\ GetItem(e.obj, c).value = MISSING
              /\ \A j \in 0..(ViewLen(view) - 1) :
                   j # c => GetItem(e.obj, j) = GetItem(view, j)
              /\ e.obj.array_view = view.array_view

\* C8 witness: a view whose next slot holds an answer (written by index)
\* and whose other slots are not all MISSING.
C8_Witness ==
    /\ CurrentIndex(view) < ViewLen(view)
    /\ GetItem(view, CurrentIndex(view)).value # MISSING
    /\ \E j \in 0..(ViewLen(view) - 1) :
         j # CurrentIndex(view) /\ GetItem(view, j).value # MISSING

\* C9: update_next on a full view raises IndexError and changes nothing;
\* so Quiz.update on a complete quiz raises and changes neither category
\* nor active.
C9_UpdateWhenFullRaises ==
    [][ (op'.name = "update" /\ CurrentIndex(Current(quiz)) >= ViewLen(Current(quiz))) =>
          (ret' = "IndexError" /\ quiz' = quiz) ]_vars

\* C9 witness: an update raised on the complete quiz.
C9_Witness ==
    /\ op.name = "update"
    /\ ret = "IndexError"
    /\ Full(quiz.clinical)
    /\ quiz.current = "clinical"

\* C10: set(i, v) with i in [0, length) makes get(i) = v and changes no
\* other index's value and not the cursor; get changes nothing; get and
\* set with i outside [0, length), negative i included, raise IndexError
\* and change nothing.
C10_GetSetRoundTrip ==
    [][ /\ (op'.name = "set" /\ InRange(view, op'.index)) =>
             /\ ret' = "None"
             /\ GetItem(view', op'.index) = [err |-> "none", value |-> op'.answer]
             /\ \A j \in 0..(ViewLen(view) - 1) :
                  j # op'.index => GetItem(view', j) = GetItem(view, j)
             /\ view'.array_view = view.array_view
        /\ (op'.name = "set" /\ ~InRange(view, op'.index)) =>
             (ret' = "IndexError" /\ view' = view)
        /\ (op'.name = "get" /\ InRange(view, op'.index)) =>
             (ret' \in Answer /\ view' = view)
        /\ (op.name = "set" /\ ret = "None" /\ op'.name = "get" /\ op'.index = op.index) =>
             ret' = op.answer
        /\ (op'.name = "get" /\ ~InRange(view, op'.index)) =>
             (ret' = "IndexError" /\ view' = view) ]_vars

\* C10 witness: an answer set by index in a subject that is not the first.
C10_Witness ==
    /\ op.name = "set"
    /\ ret = "None"
    /\ op.answer # MISSING
    /\ InRange(view, op.index)
    /\ GetInternalCoords(view, op.index).subject > 1
    /\ GetItem(view, op.index).value = op.answer

\* C11: for every absolute index i of a view, get_relative_position(i) is
\* a pair (key, internal index) such that reading the dict's Subject under
\* that key at that internal index gives view[i]; for every i outside
\* [0, length) it is None, and it does not raise.  Stated of the call made
\* in each step and of every index at every reachable view.
C11_LocateAgreesWithGet ==
    /\ op.name = "locate" =>
         IF InRange(view, op.index)
         THEN /\ ret # "None"
              /\ DictGet(view.subjects_dict, ret[1]).answers[ret[2] + 1]
                   = GetItem(view, op.index).value
         ELSE ret = "None"
    /\ \A i \in Indices :
         LET r == GetRelativePosition(view, i)
         IN  /\ r.err = "none"
             /\ IF InRange(view, i)
                THEN DictGet(view.subjects_dict, r.value[1]).answers[r.value[2] + 1]
                       = GetItem(view, i).value
                ELSE r.value = "None"

\* C11 witness: an answer located in a subject that is not the first.
C11_Witness ==
    /\ op.name = "locate"
    /\ InRange(view, op.index)
    /\ ret[1] # view.subjects_dict[1].name
    /\ GetItem(view, op.index).value # MISSING

\* every list reference a per-category reference record holds
RefSet(refs) ==
    { refs.theoretical[k] : k \in 1..Len(refs.theoretical) }
        \cup { refs.clinical[k] : k \in 1..Len(refs.clinical) }

\* C12: of two Quiz instances built from the same blueprint lists, any
\* sequence of update and erase calls on one leaves the other's slots and
\* cursors as they were and every blueprint Subject's answers all MISSING:
\* the instances and the blueprints share no answer list.
C12_InstancesShareNothing ==
    /\ Load(store.other, store.heap, store.others) = DefaultQuiz
    /\ \A r \in RefSet(store.blueprints) :
         \A i \in 1..Len(store.heap[r]) : store.heap[r][i] = MISSING
    /\ RefSet(store.mine) \cap RefSet(store.others) = {}
    /\ RefSet(store.mine) \cap RefSet(store.blueprints) = {}
    /\ RefSet(store.others) \cap RefSet(store.blueprints) = {}
    /\ Load(quiz, store.heap, store.mine) = quiz

\* C12 witness: the first instance built was filled completely (every one
\* of its lists written) and then had an answer erased.
C12_Witness ==
    /\ store.mine.theoretical[1] < store.others.theoretical[1]
    /\ Full(quiz.theoretical)
    /\ op.name = "erase"
    /\ ret = "True"
    /\ CurrentIndex(quiz.clinical) = ViewLen(quiz.clinical) - 1

\* the sum of the lengths of the Subjects of a blueprint list
BlueprintSum(subject_blueprints) ==
    Sum([k \in 1..Len(subject_blueprints) |-> SubjectLen(subject_blueprints[k])])

\* C13: constructing a category from blueprint Subjects whose lengths sum
\* to anything but NUM_QUESTIONS_PER_CATEGORY fails, so a Quiz is
\* constructed only from lists that sum to it; and in every constructed
\* category len(view) is NUM_QUESTIONS_PER_CATEGORY.
C13_WrongSumFailsConstruction ==
    pc = "constructed" =>
        /\ BlueprintSum(args.theoretical) = NUM_QUESTIONS_PER_CATEGORY
        /\ BlueprintSum(args.clinical) = NUM_QUESTIONS_PER_CATEGORY
        /\ ViewLen(quiz.theoretical) = NUM_QUESTIONS_PER_CATEGORY
        /\ ViewLen(quiz.clinical) = NUM_QUESTIONS_PER_CATEGORY

\* the lengths of the answers of a serialized category, in dict order
RecordLengths(category_dict) ==
    [k \in 1..Len(category_dict.subjects) |-> Len(category_dict.subjects[k].answers)]

\* every answer code of a serialized category is code
AllCodes(category_dict, code) ==
    \A k \in 1..Len(category_dict.subjects) :
        \A i \in 1..Len(category_dict.subjects[k].answers) :
            category_dict.subjects[k].answers[i] = code

\* C14: in a freshly constructed default Quiz every slot of every subject
\* is MISSING (serialized as " "), both cursors are 0, and the subjects'
\* lengths are the blueprint's: theoretical 13, 15, 18, 18, 18, 18 and
\* clinical 25, 10, 25, 21, 9, 10.
C14_FreshDefaultQuiz ==
    (pc = "constructed" /\ args = DefaultArgs) =>
        /\ AllCodes(QuizToDict(quiz).theoretical, " ")
        /\ AllCodes(QuizToDict(quiz).clinical, " ")
        /\ \A i \in 0..(ViewLen(quiz.theoretical) - 1) :
             GetItem(quiz.theoretical, i).value = MISSING
        /\ \A i \in 0..(ViewLen(quiz.clinical) - 1) :
             GetItem(quiz.clinical, i).value = MISSING
        /\ CurrentIndex(quiz.theoretical) = 0
        /\ CurrentIndex(quiz.clinical) = 0
        /\ RecordLengths(QuizToDict(quiz).theoretical) = << 13, 15, 18, 18, 18, 18 >>
        /\ RecordLengths(QuizToDict(quiz).clinical) = << 25, 10, 25, 21, 9, 10 >>
        /\ QuizToDict(quiz).theoretical.subjects[1].name = "Anatomi"

\* C14 witness: Quiz() has been constructed from the default blueprints.
C14_Witness ==
    /\ pc = "constructed"
    /\ args = DefaultArgs
    /\ quiz.current = "theoretical"

\* the number of slots of a category's view that hold value
SlotsHolding(cat, value) ==
    Cardinality({ i \in 0..(ViewLen(cat) - 1) : GetItem(cat, i).value = value })

\* C15: after any update/erase sequence a category's num_correct,
\* num_wrong and num_empty are the numbers of slots of its view holding
\* CORRECT, WRONG and EMPTY, and 4 * num_net = 4 * num_correct - num_wrong
\* for each Subject and for the category (4 correct, 4 wrong, 2 empty: 3).
C15_CountsAndNet ==
    /\ \A cat \in {quiz.theoretical, quiz.clinical} :
         LET slots == [i \in 0..(ViewLen(cat) - 1) |-> GetItem(cat, i).value]
             Holding(value) == Cardinality({ i \in DOMAIN slots : slots[i] = value })
             correct == CategoryNumCorrect(cat)
             wrong == CategoryNumWrong(cat)
         IN
         /\ correct = Holding(CORRECT)
         /\ wrong = Holding(WRONG)
         /\ CategoryNumEmpty(cat) = Holding(EMPTY)
         /\ CategoryNumNet(cat) = 4 * correct - wrong
         /\ \A k \in 1..Len(cat.subjects_dict) :
              SubjectNumNet(cat.subjects_dict[k]) =
                  4 * SubjectNumCorrect(cat.subjects_dict[k])
                      - SubjectNumWrong(cat.subjects_dict[k])
    /\ SubjectNumNet([name |-> "ten",
                      answers |-> << CORRECT, WRONG, EMPTY, CORRECT, WRONG,
                                     CORRECT, WRONG, EMPTY, WRONG, CORRECT >>]) = 4 * 3

\* C15 witness: after an erase, the clinical view holds answers of every
\* kind in more than one subject.
C15_Witness ==
    /\ op.name = "erase"
    /\ ret = "True"
    /\ CategoryNumCorrect(quiz.clinical) > SubjectNumCorrect(quiz.clinical.subjects_dict[1])
    /\ CategoryNumWrong(quiz.clinical) > SubjectNumWrong(quiz.clinical.subjects_dict[1])
    /\ CategoryNumEmpty(quiz.clinical) > SubjectNumEmpty(quiz.clinical.subjects_dict[1])
    /\ SubjectNumWrong(quiz.clinical.subjects_dict[1]) > 0

\* C16: in every run of the recording loop, whatever the keys, Quiz.update
\* is never called while the active view's cursor equals its length, so
\* update_next's IndexError does not occur.  (A step that makes a call
\* changes op: two calls in a row differ in their index.)
C16_LoopNeverUpdatesFullView ==
    /\ [](pc # "IndexError" /\ ret # "IndexError")
    /\ [][ (op' # op /\ op'.name = "update") => ~Full(Current(quiz)) ]_vars

\* C16 witness: the update that completed the quiz has returned and the
\* loop is at its test.
C16_Witness ==
    /\ pc = "read"
    /\ quiz_complete
    /\ op.name = "update"
    /\ Full(quiz.clinical)

\* the name of the category that is not cat
OtherCat(cat) == IF cat = "clinical" THEN "theoretical" ELSE "clinical"

\* the absolute indices at which two states of a category with the same
\* segments read differently: only slots of a Subject that differs can
\* (a slot is read from its segment's Subject), so only those are read
ChangedSlots(before, after) ==
    LET segs == before.array_view.segment_info
        touched == { s \in 1..Len(segs) :
                       after.subjects_dict[segs[s].subject]
                           # before.subjects_dict[segs[s].subject] }
    IN  UNION { { i \in segs[s].start..(segs[s].end - 1) :
                    GetItem(after, i) # GetItem(before, i) } : s \in touched }

\* C17: every Quiz.update and Quiz.erase call changes at most one slot and
\* one cursor, both of the category active when the call starts; the other
\* category is unchanged.  The update that fills the last theoretical slot
\* leaves the clinical cursor 0 and the clinical slots MISSING, and once
\* clinical is active nothing of theoretical changes again.
C17_OneSlotOfActiveCategory ==
    [][ op'.name \in {"update", "erase"} =>
          LET before == Cat(quiz, quiz.current)
              after == Cat(quiz', quiz.current)
              changed == ChangedSlots(before, after)
          IN  /\ Cat(quiz', OtherCat(quiz.current)) = Cat(quiz, OtherCat(quiz.current))
              /\ after.array_view.segment_info = before.array_view.segment_info
              /\ ViewLen(after) = ViewLen(before)
              /\ Cardinality(changed) <= 1
              /\ changed \subseteq {op'.index, op'.index - 1}
              /\ CurrentIndex(after) - CurrentIndex(before) \in {-1, 0, 1}
              /\ (quiz.current # quiz'.current) =>
                   /\ CurrentIndex(quiz'.clinical) = 0
                   /\ SlotsHolding(quiz'.clinical, MISSING) = ViewLen(quiz'.clinical)
              /\ quiz.current = "clinical" => quiz'.theoretical = quiz.theoretical ]_vars

\* C17 witness: the update that filled the last theoretical slot.
C17_Witness ==
    /\ op.name = "update"
    /\ op.cat = "theoretical"
    /\ quiz.current = "clinical"
    /\ CurrentIndex(quiz.clinical) = 0
    /\ GetItem(quiz.theoretical, ViewLen(quiz.theoretical) - 1).value # MISSING

\* the absolute index at which the k-th subject of the dict starts: the sum
\* of the lengths of the subjects before it
StartOf(data, k) == Sum([j \in 1..(k - 1) |-> SubjectLen(data[j])])

\* C18: the layout of a view is a bijection, contiguous in dict order:
\* every absolute index i in [0, total_length) maps to exactly one
\* (subject, internal index), the subject being the one with
\* s <= i < s + len(subject) for s the sum of the lengths before it and the
\* internal index i - s; distinct indices map to distinct slots, every
\* slot of every subject is reached, and total_length is the sum of the
\* lengths.
C18_LayoutIsContiguousBijection ==
    LET data == view.subjects_dict
        Owners(i) == { k \in 1..Len(data) :
                         StartOf(data, k) <= i /\ i < StartOf(data, k) + SubjectLen(data[k]) }
        Slot(i) == << GetInternalCoords(view, i).subject,
                      GetInternalCoords(view, i).internal_index >>
        Valid == 0..(ViewLen(view) - 1)
    IN  /\ ViewLen(view) = StartOf(data, Len(data) + 1)
        /\ \A i \in Valid :
             /\ GetInternalCoords(view, i).err = "none"
             /\ Owners(i) = { Slot(i)[1] }
             /\ Slot(i)[2] = i - StartOf(data, Slot(i)[1])
             /\ GetInternalCoords(view, i).key = data[Slot(i)[1]].name
        /\ \A i, j \in Valid : i # j => Slot(i) # Slot(j)
        /\ \A k \in 1..Len(data) : \A m \in 0..(SubjectLen(data[k]) - 1) :
             \E i \in Valid : Slot(i) = << k, m >>

\* C18 witness: a view over three subjects, the middle one without
\* questions, whose last index has been looked up.
C18_Witness ==
    /\ Len(view.subjects_dict) = 3
    /\ SubjectLen(view.subjects_dict[1]) = 1
    /\ SubjectLen(view.subjects_dict[2]) = 0
    /\ SubjectLen(view.subjects_dict[3]) = 1
    /\ op.name = "locate"
    /\ op.index = 1
    /\ ret = << "3", 0 >>

\* C19: in every state reached from a fresh Quiz by update and erase calls,
\* every slot at or above its view's cursor is MISSING, and active is
\* clinical exactly when the theoretical cursor equals its length.
C19_AboveCursorMissing ==
    /\ \A cat \in {quiz.theoretical, quiz.clinical} :
         \A i \in CurrentIndex(cat)..(ViewLen(cat) - 1) :
            GetItem(cat, i).value = MISSING
    /\ quiz.current = "clinical" <=> Full(quiz.theoretical)

\* C19 witness: an erase inside the clinical view, below answers once
\* entered.
C19_Witness ==
    /\ op.name = "erase"
    /\ ret = "True"
    /\ quiz.current = "clinical"
    /\ CurrentIndex(quiz.clinical) > 1
    /\ CurrentIndex(quiz.clinical) < ViewLen(quiz.clinical) - 1

\* C20: the recording loop returns the Quiz only with both cursors at their
\* views' lengths; after the update that returns True the loop applies no
\* further update or erase; and on the abort key the loop returns None, at
\* any point: the character "\x03" is caught wherever the loop reads it,
\* the Quiz as it was, every Ctrl-C that arrives while the loop runs (the
\* character, or the interrupt at the while test, at the jump back to it,
\* after a read or inside update or erase) is caught, every caught one is
\* followed by the return of None, and None is returned in no other way.
\* (Runs in which no further interrupt arrives inside the handler.)
C20_ReturnsOnlyCompleteQuiz ==
    /\ [](pc = "returned_quiz" => (Full(quiz.theoretical) /\ Full(quiz.clinical)))
    /\ [][ quiz_complete => (quiz' = quiz /\ op' = op) ]_vars
    /\ [][ (pc = "read" /\ char_input' = CTRL_C) =>
             (~quiz_complete /\ pc' = "aborted" /\ quiz' = quiz) ]_vars
    /\ [][ (Reading /\ KeyAbort) => pc' = "aborted" ]_vars
    /\ [][ pc = "aborted" =>
             (pc' = "returned_None" /\ quiz' = quiz /\ quiz_complete' = quiz_complete) ]_vars
    /\ [][ (pc' = "returned_None" /\ pc # "returned_None") => pc = "aborted" ]_vars
    /\ (pc = "aborted") ~> (pc = "returned_None")

====
